---------------------------- MODULE Spec2Model ----------------------------
(***************************************************************************)
(* A model of theca's profile store (src/src/theca/profile.rs, lib.rs):    *)
(* the in-memory note operations, the load / save / merge-replay protocol  *)
(* over the profile files, and several invocations of the tool racing on   *)
(* the same files.                                                         *)
(*                                                                         *)
(* Strings are sequences of one-character strings.  The wall clock reads   *)
(* Now throughout a run; the notes a run starts with were stamped Earlier. *)
(***************************************************************************)
EXTENDS Integers, Sequences, FiniteSets, TLC

(***************************************************************************)
(* Bounds of the model.                                                    *)
(***************************************************************************)
\* operations applied in a run of SpecOps
MaxOps == 5
\* length of the id list handed to delete in SpecOps
MaxDelLen == 2
\* ids of the notes a profile file holds at the start of a run of Spec
MaxInitId == 2

(***************************************************************************)
(* Data model: item.rs (Item, Status) and profile.rs (Profile).            *)
(***************************************************************************)
Status == {"Blank", "Started", "Urgent"}

\* Option<Status>::None
NoStatus == "None"

\* OffsetDateTime::now_local().format(DATEFMT), and a reading before it
Now == <<"b">>
Earlier == <<"a">>

\* an Item as add_note makes it: stamped with the clock
Item(id, title, status, body) ==
    [id |-> id, title |-> title, status |-> status, body |-> body,
     last_touched |-> Now]

Profile(encrypted, notes) == [encrypted |-> encrypted, notes |-> notes]

\* Result<T>: err = "" is Ok(val), anything else is Err(err)
Ok(val) == [err |-> "", val |-> val]
Err(e, val) == [err |-> e, val |-> val]

\* the one message every declined prompt fails with (specific_fail_str!("ok bye"))
UserAborted == "ok bye"

\* the message edit_note and view_note fail with for an id no note has
NoteNotFound == "note doesn't exist"

(***************************************************************************)
(* Helpers over sequences, as the iterator adaptors the code uses.         *)
(***************************************************************************)
Range(s) == {s[i] : i \in DOMAIN s}

\* notes.iter().position(|n| n.id == id): the first index, 0 for None
Position(notes, id) ==
    IF \E i \in DOMAIN notes : notes[i].id = id
    THEN CHOOSE i \in DOMAIN notes :
            /\ notes[i].id = id
            /\ \A j \in DOMAIN notes : notes[j].id = id => i <= j
    ELSE 0

\* Vec::remove(e)
Remove(s, e) == SubSeq(s, 1, e - 1) \o SubSeq(s, e + 1, Len(s))

\* str::replace("\n", "")
StripNewlines(s) == SelectSeq(s, LAMBDA c : c # "\n")

\* the terminal and the pipe an invocation runs with
NoIo == [stdin |-> <<>>, tty |-> FALSE, edited |-> <<>>]

(***************************************************************************)
(* Note operations of Profile.                                             *)
(***************************************************************************)
\* a plausible slip: the new id taken from the note count
AddNoteByCount(self, title, body, status, use_stdin, use_editor, io) ==
    [self EXCEPT !.notes = Append(@,
        Item(Len(self.notes) + 1, StripNewlines(title),
             IF status = NoStatus THEN "Blank" ELSE status,
             IF body = <<>> THEN <<>> ELSE body[1]))]

\* Profile::add_note
add_note(self, title, body, status, use_stdin, use_editor, io) ==
    LET title1 == StripNewlines(title)
        body1 == IF use_stdin THEN io.stdin
                 ELSE IF ~use_editor
                      THEN (IF body = <<>> THEN <<>> ELSE body[1])
                 ELSE IF io.tty THEN io.edited
                 ELSE <<>>
        new_id == IF self.notes = <<>> THEN 0
                  ELSE self.notes[Len(self.notes)].id
    IN  [self EXCEPT !.notes = Append(@,
            Item(new_id + 1, title1,
                 IF status = NoStatus THEN "Blank" ELSE status, body1))]

\* a plausible slip: the loop stops at the first id that is absent
RECURSIVE DeleteUntilAbsent(_, _)
DeleteUntilAbsent(self, id) ==
    IF id = <<>> THEN self
    ELSE LET e == Position(self.notes, Head(id))
         IN  IF e = 0 THEN self
             ELSE DeleteUntilAbsent([self EXCEPT !.notes = Remove(@, e)],
                                    Tail(id))

\* Profile::delete_note
RECURSIVE delete_note(_, _)
delete_note(self, id) ==
    IF id = <<>> THEN self
    ELSE LET e == Position(self.notes, Head(id))
         IN  delete_note(IF e = 0 THEN self
                         ELSE [self EXCEPT !.notes = Remove(@, e)],
                         Tail(id))

\* a plausible slip: an edit that names no status leaves the status alone
EditNoteKeepsStatus(self, id, title, body, status, use_stdin, flags, io, answer) ==
    LET item_pos == Position(self.notes, id)
    IN  IF item_pos = 0 THEN Err(NoteNotFound, self)
        ELSE Ok([self EXCEPT !.notes[item_pos] =
                    [@ EXCEPT !.title = IF title = <<>> THEN @
                                        ELSE StripNewlines(title),
                              !.status = IF status = NoStatus THEN @ ELSE status,
                              !.body = IF use_stdin THEN io.stdin
                                       ELSE IF body # <<>> THEN body[1] ELSE @,
                              !.last_touched = Now]])

\* a plausible slip: an id no note has edits nothing and is no error
EditNoteSkipsAbsent(self, id, title, body, status, use_stdin, flags, io, answer) ==
    LET item_pos == Position(self.notes, id)
    IN  IF item_pos = 0 THEN Ok(self)
        ELSE Ok([self EXCEPT !.notes[item_pos] =
                    [@ EXCEPT !.title = IF title = <<>> THEN @
                                        ELSE StripNewlines(title),
                              !.status = IF status = NoStatus THEN "Blank"
                                         ELSE status,
                              !.body = IF use_stdin THEN io.stdin
                                       ELSE IF body # <<>> THEN body[1] ELSE @,
                              !.last_touched = Now]])

\* Profile::edit_note.  io is the pipe and the terminal of the invocation
\* (io.edited: the text the editor hands back); answer is what get_yn_input
\* returns when the warning of line 358-365 is asked.  An error leaves self
\* as the lines run before it made it.
edit_note(self, id, title, body, status, use_stdin, flags, io, answer) ==
    LET item_pos == Position(self.notes, id)
    IN  IF item_pos = 0 THEN Err(NoteNotFound, self)
        ELSE
        LET n0 == self.notes[item_pos]
            \* 331-346
            n1 == IF title = <<>> THEN n0
                  ELSE IF StripNewlines(title) = <<"-">>
                       THEN (IF ~use_stdin THEN [n0 EXCEPT !.body = io.stdin]
                             ELSE [n0 EXCEPT !.title = StripNewlines(title)])
                       ELSE [n0 EXCEPT !.title = StripNewlines(title)]
            \* 347
            n2 == [n1 EXCEPT !.status = IF status = NoStatus THEN "Blank"
                                        ELSE status]
            \* 349-381
            change == body # <<>> \/ flags.editor \/ use_stdin
            asked == change /\ ~use_stdin /\ flags.editor /\ io.tty
                        /\ flags.encrypted /\ ~flags.yes
            n3 == IF ~change THEN n2
                  ELSE [n2 EXCEPT !.body =
                          IF use_stdin THEN io.stdin
                          ELSE IF flags.editor
                               THEN (IF io.tty THEN io.edited ELSE n2.body)
                               ELSE body[1]]
            \* 384
            n4 == [n3 EXCEPT !.last_touched = Now]
        IN  IF asked /\ ~answer
            THEN Err(UserAborted, [self EXCEPT !.notes[item_pos] = n2])
            ELSE Ok([self EXCEPT !.notes[item_pos] = n4])

\* Profile::view_note: what is printed is not part of the model
view_note(self, id) ==
    IF Position(self.notes, id) = 0 THEN Err(NoteNotFound, self) ELSE Ok(self)

\* Profile::stats: what is printed is not part of the model; a profile
\* without notes has no oldest note (profile.rs 398-405)
stats(self) ==
    IF self.notes = <<>> THEN Err("last_touched is not properly formated", self)
    ELSE Ok(self)

\* Profile::clear; answer is what get_yn_input returns when it is asked
clear(self, yes, answer) ==
    IF ~yes /\ ~answer THEN Err(UserAborted, self)
    ELSE Ok([self EXCEPT !.notes = <<>>])

(***************************************************************************)
(* Inputs the commands are drawn from.                                     *)
(***************************************************************************)
Titles == {<<"a">>, <<"b">>}

\* the largest id in a note sequence, 0 when it is empty
MaxIdOf(notes) ==
    IF notes = <<>> THEN 0
    ELSE CHOOSE m \in {notes[i].id : i \in DOMAIN notes} :
            \A i \in DOMAIN notes : notes[i].id <= m

IdsOf(notes) == {notes[i].id : i \in DOMAIN notes}

\* the id lists a delete may be given: short, with absent and repeated ids
IdLists(notes) ==
    UNION {[1..n -> 1..(MaxIdOf(notes) + 1)] : n \in 1..MaxDelLen}

(***************************************************************************)
(* The profile file: the encoding save_to_file writes and                  *)
(* from_existing_profile decodes, as a sequence of small numbers.          *)
(***************************************************************************)
Chars == <<"a", "b", "-", "\n">>

CharCode(c) == CHOOSE i \in DOMAIN Chars : Chars[i] = c

\* impl Encodable for Status: the variant index
StatusCode(st) == CASE st = "Blank" -> 0 [] st = "Started" -> 1 [] st = "Urgent" -> 2

\* impl Decodable for Status
StatusOfCode(i) == CASE i = 0 -> "Blank" [] i = 1 -> "Started" [] i = 2 -> "Urgent"

EncodeStr(s) == <<Len(s)>> \o [i \in DOMAIN s |-> CharCode(s[i])]

\* a plausible slip: the time stamp is left out of the file
EncodeItemUnstamped(n) ==
    <<n.id>> \o EncodeStr(n.title) \o <<StatusCode(n.status)>> \o EncodeStr(n.body)
        \o EncodeStr(<<>>)

\* impl Encodable for Item
EncodeItem(n) ==
    <<n.id>> \o EncodeStr(n.title) \o <<StatusCode(n.status)>> \o EncodeStr(n.body)
        \o EncodeStr(n.last_touched)

RECURSIVE EncodeItems(_)
EncodeItems(notes) ==
    IF notes = <<>> THEN <<>>
    ELSE EncodeItem(Head(notes)) \o EncodeItems(Tail(notes))

\* self.encode(&mut encoder)
Encode(self) == <<IF self.encrypted THEN 1 ELSE 0>> \o EncodeItems(self.notes)

RECURSIVE DecodeItems(_)
DecodeItems(b) ==
    IF b = <<>> THEN <<>>
    ELSE LET tl == b[2]
             title == [i \in 1..tl |-> Chars[b[2 + i]]]
             bl == b[4 + tl]
             body == [i \in 1..bl |-> Chars[b[4 + tl + i]]]
             ll == b[5 + tl + bl]
             last_touched == [i \in 1..ll |-> Chars[b[5 + tl + bl + i]]]
         IN  <<[id |-> b[1], title |-> title, status |-> StatusOfCode(b[3 + tl]),
                body |-> body, last_touched |-> last_touched]>>
             \o DecodeItems(SubSeq(b, 6 + tl + bl + ll, Len(b)))

\* decode(&*contents)
Decode(b) == Profile(b[1] = 1, DecodeItems(Tail(b)))

FpSeed == 7
FpBase == 31
FpModulus == 16777213

\* utils::profile_fingerprint: a digest of the bytes of the file
RECURSIVE profile_fingerprint(_)
profile_fingerprint(b) ==
    IF b = <<>> THEN FpSeed
    ELSE (profile_fingerprint(SubSeq(b, 1, Len(b) - 1)) * FpBase + b[Len(b)])
             % FpModulus

(***************************************************************************)
(* Display: list_notes and search_notes hand a copy of the notes to        *)
(* sorted_print.                                                           *)
(***************************************************************************)
\* the order of two notes under the sort key: id, or last_touched with
\* flags.datesort
Before(n, m, datesort) ==
    IF datesort THEN CharCode(n.last_touched[1]) < CharCode(m.last_touched[1])
    ELSE n.id < m.id

\* a stable sort, ascending
RECURSIVE SortedBy(_, _)
SortedBy(notes, datesort) ==
    IF notes = <<>> THEN <<>>
    ELSE LET rest == SortedBy(SubSeq(notes, 1, Len(notes) - 1), datesort)
             n == notes[Len(notes)]
             k == Cardinality({i \in DOMAIN rest : ~Before(n, rest[i], datesort)})
         IN  SubSeq(rest, 1, k) \o <<n>> \o SubSeq(rest, k + 1, Len(rest))

Reversed(s) == [i \in DOMAIN s |-> s[Len(s) + 1 - i]]

\* sorted_print: the notes it is given sorted by the key, reversed with
\* flags.reverse, cut to limit (0: all of them); the result is what is shown
sorted_print(notes, limit, flags, status) ==
    LET sorted == SortedBy(notes, flags.datesort)
        ordered == IF flags.reverse THEN Reversed(sorted) ELSE sorted
    IN  IF limit = 0 \/ limit >= Len(ordered) THEN ordered
        ELSE SubSeq(ordered, 1, limit)

\* the result of a call that shows notes: self after it, and what was shown
Shown(self, out) == [err |-> "", val |-> self, out |-> out]

\* a plausible slip: the notes are sorted where they are stored
ListNotesInPlace(self, limit, flags, status) ==
    LET out == sorted_print(self.notes, limit, flags, status)
    IN  Shown([self EXCEPT !.notes = out], out)

\* Profile::list_notes
list_notes(self, limit, flags, status) ==
    IF self.notes # <<>>
    THEN Shown(self, sorted_print(self.notes, limit, flags, status))
    ELSE Shown(self, <<>>)

\* str::contains
Contains(s, pattern) ==
    \E i \in 1..(Len(s) + 1) :
        /\ i + Len(pattern) - 1 <= Len(s)
        /\ SubSeq(s, i, i + Len(pattern) - 1) = pattern

\* Regex::new fails on a pattern with an unclosed group
RegexError(pattern) == \E i \in DOMAIN pattern : pattern[i] = "("

\* Profile::search_notes; the patterns drawn are literals, which is_match
\* finds where contains does
search_notes(self, pattern, limit, flags, status) ==
    IF flags.regex /\ RegexError(pattern)
    THEN [err |-> "regex error", val |-> self, out |-> <<>>]
    ELSE LET notes == SelectSeq(self.notes,
                          LAMBDA n : IF flags.search_body
                                     THEN Contains(n.body, pattern)
                                     ELSE Contains(n.title, pattern))
         IN  IF notes # <<>>
             THEN Shown(self, sorted_print(notes, limit, flags, status))
             ELSE Shown(self, <<>>)

(***************************************************************************)
(* The contents of the profile file, encrypted for an encrypted profile.   *)
(***************************************************************************)
ByteRange == 256

Keys == {<<"a">>, <<"-">>}

\* crypt::password_to_key
RECURSIVE password_to_key(_)
password_to_key(key) ==
    IF key = <<>> THEN 1
    ELSE (password_to_key(Tail(key)) * FpBase + CharCode(Head(key))) % ByteRange

\* crypt::encrypt: a keyed change of every byte
encrypt(b, k) == [i \in DOMAIN b |-> (b[i] + k) % ByteRange]

\* crypt::decrypt
decrypt(b, k) == [i \in DOMAIN b |-> (b[i] + ByteRange - k) % ByteRange]

\* save_to_file 172-193: the buffer written to the file
Contents(self, key) ==
    IF self.encrypted THEN encrypt(Encode(self), password_to_key(key))
    ELSE Encode(self)

\* the bytes are the encoding of notes: decode succeeds on them
RECURSIVE ItemsParse(_)
ItemsParse(b) ==
    \/ b = <<>>
    \/ /\ Len(b) >= 5
       /\ b[2] + 5 <= Len(b)
       /\ \A i \in 1..b[2] : b[2 + i] \in DOMAIN Chars
       /\ b[3 + b[2]] \in 0..2
       /\ LET tl == b[2]
              bl == b[4 + tl]
          IN  /\ 5 + tl + bl <= Len(b)
              /\ \A i \in 1..bl : b[4 + tl + i] \in DOMAIN Chars
              /\ LET ll == b[5 + tl + bl]
                 IN  /\ 5 + tl + bl + ll <= Len(b)
                     /\ \A i \in 1..ll : b[5 + tl + bl + i] \in DOMAIN Chars
                     /\ ItemsParse(SubSeq(b, 6 + tl + bl + ll, Len(b)))

Parses(b) == b # <<>> /\ b[1] \in {0, 1} /\ ItemsParse(Tail(b))

\* from_existing_profile 68-85: the profile read from the file, or the
\* error of decrypt, from_utf8 or decode on bytes that are not what a save
\* under this key and flag wrote
Loaded(file, key, encrypted) ==
    IF ~file.exists THEN Err("does not exist", Profile(FALSE, <<>>))
    ELSE LET contents == IF encrypted
                         THEN decrypt(file.bytes, password_to_key(key))
                         ELSE file.bytes
         IN  IF Parses(contents) THEN Ok(Decode(contents))
             ELSE Err(IF encrypted THEN "decryption failed" ELSE "invalid JSON",
                      Profile(FALSE, <<>>))

(***************************************************************************)
(* The pipe and the terminal of an invocation.                             *)
(***************************************************************************)
\* what a command may find on its pipe and get from its terminal
Piped == [stdin |-> <<"a">>, tty |-> FALSE, edited |-> <<>>]
Terminal == [stdin |-> <<"a">>, tty |-> TRUE, edited |-> <<"b", "a">>]

(***************************************************************************)
(* Command line arguments (lib.rs, struct Args).  The cmd_* flags, of      *)
(* which the command line sets one, are the one field cmd ("view": none of *)
(* them, and an id).                                                       *)
(***************************************************************************)
Names == {"A", "B"}

\* an invocation of the tool is a process that runs one command line
Procs == {"p1", "p2", "p3"}

MkArgs(cmd, profile, name, id, title, yes) ==
    [cmd |-> cmd, flag_profile |-> profile, arg_name |-> name, arg_id |-> id,
     arg_title |-> title, flag_body |-> <<>>, status |-> NoStatus,
     cmd__ |-> FALSE, flag_editor |-> FALSE, flag_encrypted |-> FALSE,
     flag_yes |-> yes, flag_key |-> <<>>, flag_new_key |-> <<>>,
     arg_pattern |-> <<>>, flag_limit |-> 0, flag_datesort |-> FALSE,
     flag_reverse |-> FALSE, flag_regex |-> FALSE, flag_search_body |-> FALSE]

\* BoolFlags::from_args
BoolFlags(args) ==
    [editor |-> args.flag_editor, encrypted |-> args.flag_encrypted,
     yes |-> args.flag_yes, datesort |-> args.flag_datesort,
     reverse |-> args.flag_reverse, regex |-> args.flag_regex,
     search_body |-> args.flag_search_body]

\* an invocation with the editor flag runs on a terminal, the others on a
\* pipe
IoOf(args) == IF args.flag_editor THEN Terminal ELSE Piped

NoArgs == MkArgs("none", "A", <<>>, <<>>, <<>>, FALSE)

\* the command lines of the invocation that is looked at
CmdLines ==
    {MkArgs("add", f, <<>>, <<>>, <<"a">>, y) : f \in Names, y \in BOOLEAN}
    \cup {MkArgs("del", f, <<>>, <<i>>, <<>>, y) :
            f \in Names, i \in 1..2, y \in BOOLEAN}
    \cup {MkArgs("clear", f, <<>>, <<>>, <<>>, y) : f \in Names, y \in BOOLEAN}
    \cup {MkArgs("transfer", f, <<n>>, <<i>>, <<>>, y) :
            f \in Names, n \in Names, i \in 1..2, y \in BOOLEAN}
    \cup {MkArgs("new_profile", "A", <<n>>, <<>>, <<>>, y) :
            n \in Names, y \in BOOLEAN}
    \cup {MkArgs(c, "A", <<>>, <<i>>, IF c = "edit" THEN <<"b">> ELSE <<>>,
                 FALSE) :
            c \in {"edit", "view"}, i \in {1, MaxInitId + 1}}
    \cup {MkArgs(c, "A", <<>>, <<>>, <<>>, FALSE) :
            c \in {"list", "info", "list_profiles"}}
    \cup {[MkArgs("search", "A", <<>>, <<>>, <<>>, FALSE)
                EXCEPT !.arg_pattern = <<"a">>]}
    \cup {MkArgs("import", "A", <<"B">>, id, <<>>, FALSE) : id \in {<<>>, <<1>>}}
    \cup {[MkArgs(c, "A", <<>>, IF c = "edit" THEN <<1>> ELSE <<>>, <<"a">>,
                  FALSE)
                EXCEPT !.flag_editor = TRUE, !.flag_body = b] :
            c \in {"add", "edit"}, b \in {<<>>, <<<<"b">>>>}}

\* the command lines of an invocation that runs beside it
WriterLines ==
    {MkArgs("add", f, <<>>, <<>>, <<"b">>, FALSE) : f \in Names}
    \cup {MkArgs("del", "A", <<>>, <<1>>, <<>>, FALSE)}

\* the command line given the key of the profile file, if it has one
Keyed(args, encrypted) ==
    [args EXCEPT !.flag_encrypted = encrypted,
                 !.flag_key = IF encrypted THEN <<"a">> ELSE <<>>]

\* encrypt-profile and decrypt-profile on A, and an add beside them
CryptLines ==
    {Keyed([MkArgs(c, "A", <<>>, <<>>, <<>>, FALSE)
                EXCEPT !.flag_new_key = <<"-">>], e) :
        c \in {"encrypt_profile", "decrypt_profile"}, e \in BOOLEAN}

CryptWriterLines ==
    {Keyed(MkArgs("add", "A", <<>>, <<>>, <<"b">>, FALSE), e) : e \in BOOLEAN}

\* "pair": two invocations of any command; "crypt": a change of the
\* encryption beside an add; "nested": three that add to A
LinesOf(scenario, p) ==
    IF scenario = "pair"
    THEN CASE p = "p1" -> CmdLines [] p = "p2" -> WriterLines [] OTHER -> {}
    ELSE IF scenario = "crypt"
    THEN CASE p = "p1" -> CryptLines [] p = "p2" -> CryptWriterLines
           [] OTHER -> {}
    ELSE {MkArgs("add", "A", <<>>, <<>>, IF p = "p1" THEN <<"a">> ELSE <<"b">>,
                 FALSE)}

\* the note sequences a profile file may hold at the start: ids ascending
\* from 1..MaxInitId, as add_note and delete_note leave them (SpecOps)
\* the note an earlier run left under an id: notes with an odd id are
\* plain, those with an even id are urgent and have a body
InitNote(id) ==
    [(IF id % 2 = 1 THEN Item(id, <<"a">>, "Blank", <<>>)
                    ELSE Item(id, <<"b">>, "Urgent", <<"a">>))
        EXCEPT !.last_touched = Earlier]

RECURSIVE NotesOfIds(_, _)
NotesOfIds(ids, from) ==
    IF from > MaxInitId THEN <<>>
    ELSE (IF from \in ids THEN <<InitNote(from)>> ELSE <<>>)
         \o NotesOfIds(ids, from + 1)

InitNotes == {NotesOfIds(ids, 1) : ids \in SUBSET (1..MaxInitId)}

(***************************************************************************)
(* The call stack of an invocation.  A frame is a call that is either at a *)
(* file access (the top frame) or waiting for the call above it.           *)
(***************************************************************************)
Frame(fn, pc, profile, args, fp, origin) ==
    [fn |-> fn, pc |-> pc, profile |-> profile, args |-> args, fp |-> fp,
     origin |-> origin]

\* what a call hands back: Profile::new its (Profile, u64); the others the
\* profile and args they hold by &mut.  origin: the bytes profile was read from
Ret(profile, args, fp, origin) ==
    [profile |-> profile, args |-> args, fp |-> fp, origin |-> origin]

Front(s) == SubSeq(s, 1, Len(s) - 1)

\* the file save_to_file writes (profile.rs 127-131)
SavePath(args) ==
    IF args.cmd = "new_profile" THEN args.arg_name[1] ELSE args.flag_profile

(***************************************************************************)
(* Calls and returns.  A step of an invocation runs from one file access   *)
(* to the next: the code between two file accesses reads and writes only   *)
(* the invocation's own memory.  A step yields the new stack and the error *)
(* (err # "") that ended the invocation, every call being made with `?`.   *)
(***************************************************************************)
Going(stk) == [stack |-> stk, err |-> ""]
Failed(e) == [stack |-> <<>>, err |-> e]

\* a call of save_to_file(self, args, fingerprint), at its first file access
CallSave(stk, self, args, fp, origin) ==
    Going(Append(stk, Frame("save_to_file", "check", self, args, fp, origin)))

\* a plausible slip: the copy keeps the id the note has in the source
CopyNoteKeepingId(trans_profile, n) ==
    [trans_profile EXCEPT !.notes = Append(@, n)]

\* transfer_note 219-224: the copy into the destination
CopyNote(trans_profile, n) ==
    add_note(trans_profile, n.title, <<n.body>>, n.status, FALSE, FALSE, NoIo)

\* transfer_note 206-207
TransArgs(args) == [args EXCEPT !.flag_profile = args.arg_name[1]]

\* the error of transfer_note 233-238, for a note found in self that
\* position does not find again
RemovalFailed == "couldn't remove note, aborting nothing will be saved"

\* the panic of an index past the end of a Vec
IndexOutOfBounds == "index out of bounds"

\* a plausible slip: the note is copied and stays in the source
TransferLoadedKeeps(stk, f, ret) ==
    LET e == Position(f.profile.notes, f.args.arg_id[1])
    IN  IF e = 0
        THEN Failed("could not transfer note")
        ELSE CallSave(Append(stk, [f EXCEPT !.pc = "save"]),
                      CopyNote(ret.profile, f.profile.notes[e]),
                      TransArgs(f.args), ret.fp, ret.origin)

\* a plausible slip: the destination is not saved by transfer_note
TransferLoadedUnsaved(stk, f, ret) ==
    LET e == Position(f.profile.notes, f.args.arg_id[1])
    IN  IF e = 0
        THEN Failed("could not transfer note")
        ELSE LET self == [f.profile EXCEPT !.notes = Remove(@, e)]
                 caller == stk[Len(stk)]
             IN  CallSave(Append(Front(stk), [caller EXCEPT !.pc = "save",
                                                            !.profile = self]),
                          self, caller.args, caller.fp, caller.origin)

\* transfer_note 215-244, once the destination is loaded: the copy, the
\* removal from self, and the call saving the destination
TransferLoaded(stk, f, ret) ==
    IF f.args.arg_id = <<>> THEN Failed(IndexOutOfBounds)
    ELSE
    LET e == Position(f.profile.notes, f.args.arg_id[1])
    IN  IF e = 0
        THEN Failed("could not transfer note")
        ELSE LET trans == CopyNote(ret.profile, f.profile.notes[e])
                 self == [f.profile EXCEPT !.notes = Remove(@, e)]
             IN  CallSave(Append(stk, [f EXCEPT !.pc = "save", !.profile = self]),
                          trans, TransArgs(f.args), ret.fp, ret.origin)

\* save_to_file 167: changed_profile.save_to_file(&new_args, &0u64)
ReplaySaved(stk, f, ret) ==
    CallSave(Append(stk, [f EXCEPT !.pc = "final"]),
             ret.profile, ret.args, 0, ret.origin)

\* a plausible slip: the command is replayed on the profile in memory
ReplayOnStale(stk, f, ret) ==
    Going(stk \o <<[f EXCEPT !.pc = "replay"],
                   Frame("parse_cmds", "dispatch", f.profile, f.args,
                         ret.fp, ret.origin)>>)

\* save_to_file 158-166: parse_cmds(&mut changed_profile, &mut new_args,
\* &changed_fingerprint) on the profile Profile::new has just loaded
ReplayCommand(stk, f, ret) ==
    Going(stk \o <<[f EXCEPT !.pc = "replay"],
                   Frame("parse_cmds", "dispatch", ret.profile, f.args,
                         ret.fp, ret.origin)>>)

\* lib.rs 262-266: the arguments of the transfer an import is run as
FromArgs(args) ==
    [args EXCEPT !.cmd = "transfer", !.flag_profile = args.arg_name[1],
                 !.arg_name = <<args.flag_profile>> \o Tail(args.arg_name)]

\* the call under the top of the stack goes on with what the top returned
RECURSIVE Resume(_, _)
Resume(stk, ret) ==
    IF stk = <<>> THEN Going(<<>>)
    ELSE
    LET f == stk[Len(stk)]
        rest == Front(stk)
        own == Ret(f.profile, f.args, f.fp, f.origin)
    IN  CASE f.fn = "main" /\ f.pc = "new" ->
                \* main: parse_cmds(&mut profile, &mut args, &fingerprint)
                Going(rest \o <<[f EXCEPT !.pc = "parse_cmds"],
                                Frame("parse_cmds", "dispatch", ret.profile,
                                      f.args, ret.fp, ret.origin)>>)
          [] f.fn = "main" /\ f.pc = "parse_cmds" ->
                Resume(rest, own)
          [] f.fn = "parse_cmds" /\ f.pc = "transfer" ->
                \* lib.rs 254, after transfer_note changed the profile
                CallSave(Append(rest, [f EXCEPT !.pc = "save",
                                                !.profile = ret.profile]),
                         ret.profile, f.args, f.fp, f.origin)
          [] f.fn = "parse_cmds" /\ f.pc = "save" ->
                Resume(rest, own)
          [] f.fn = "parse_cmds" /\ f.pc = "import" ->
                \* lib.rs 277: parse_cmds(&mut from_profile, &mut from_args,
                \* &from_fingerprint)
                Going(rest \o <<[f EXCEPT !.pc = "imported"],
                                Frame("parse_cmds", "dispatch", ret.profile,
                                      FromArgs(f.args), ret.fp, ret.origin)>>)
          [] f.fn = "parse_cmds" /\ f.pc = "imported" ->
                Resume(rest, own)
          [] f.fn = "transfer_note" /\ f.pc = "new" ->
                TransferLoaded(rest, f, ret)
          [] f.fn = "transfer_note" /\ f.pc = "save" ->
                Resume(rest, own)
          [] f.fn = "save_to_file" /\ f.pc = "reload" ->
                ReplayCommand(rest, f, ret)
          [] f.fn = "save_to_file" /\ f.pc = "replay" ->
                ReplaySaved(rest, f, ret)
          [] f.fn = "save_to_file" /\ f.pc = "final" ->
                Resume(rest, own)

\* Profile::from_scratch: an empty profile and fingerprint 0.  The profile
\* folder exists (it holds the files of Init), so nothing is asked.
from_scratch(encrypted) == Ret(Profile(encrypted, <<>>), NoArgs, 0, <<>>)

\* Profile::new(&args.flag_profile, .., args.cmd_new_profile, ..)
ProfileNew(stk, args) ==
    IF args.cmd = "new_profile"
    THEN Resume(stk, from_scratch(args.flag_encrypted))
    ELSE Going(Append(stk, Frame("new", "read", Profile(FALSE, <<>>), args,
                                 0, <<>>)))

\* the error of transfer_note 199-204
SelfTransfer == "cannot transfer a note from a profile to itself"

\* a plausible slip: the names of the two profiles are not compared
TransferNoteUnchecked(stk, f) ==
    ProfileNew(stk \o <<[f EXCEPT !.pc = "transfer"],
                        Frame("transfer_note", "new", f.profile, f.args, f.fp,
                              f.origin)>>,
               TransArgs(f.args))

\* transfer_note 199-213, called by the parse_cmds frame f: the check of the
\* two names, then Profile::new for the destination
transfer_note(stk, f) ==
    IF f.args.flag_profile = f.args.arg_name[1]
    THEN Failed(SelfTransfer)
    ELSE ProfileNew(stk \o <<[f EXCEPT !.pc = "transfer"],
                             Frame("transfer_note", "new", f.profile, f.args,
                                   f.fp, f.origin)>>,
                    TransArgs(f.args))

\* lib.rs 174-181: the commands parse_cmds saves the profile after
Mutating ==
    {"add", "edit", "encrypt_profile", "del", "decrypt_profile", "transfer",
     "clear", "new_profile"}

\* a plausible slip: the profile is saved whatever the command was
ParseCmdsSavesAll(stk, answer) ==
    LET f == stk[Len(stk)]
    IN  CallSave(Append(Front(stk), [f EXCEPT !.pc = "save"]),
                 f.profile, f.args, f.fp, f.origin)

\* parse_cmds 170-287: the command applied to the profile and, for a
\* command that changes it, the save
parse_cmds(stk, answer) ==
    LET f == stk[Len(stk)]
        rest == Front(stk)
        args == f.args
        flags == BoolFlags(args)
        SaveWith(profile, args1) ==
            CallSave(Append(rest, [f EXCEPT !.pc = "save", !.profile = profile,
                                            !.args = args1]),
                     profile, args1, f.fp, f.origin)
        Save(profile) == SaveWith(profile, args)
        Done(r) == IF r.err # "" THEN Failed(r.err)
                   ELSE Resume(rest, Ret(f.profile, args, f.fp, f.origin))
    IN  IF args.cmd \in Mutating
        THEN CASE args.cmd = "add" ->
                    Save(add_note(f.profile, args.arg_title, args.flag_body,
                                  args.status, args.cmd__, args.flag_editor,
                                  IoOf(args)))
              [] args.cmd = "edit" ->
                    IF args.arg_id = <<>> THEN Failed(IndexOutOfBounds)
                    ELSE LET r == edit_note(f.profile, args.arg_id[1],
                                            args.arg_title, args.flag_body,
                                            args.status, args.cmd__, flags,
                                            IoOf(args), answer)
                         IN  IF r.err # "" THEN Failed(r.err) ELSE Save(r.val)
              [] args.cmd = "del" ->
                    Save(delete_note(f.profile, args.arg_id))
              [] args.cmd = "transfer" ->
                    transfer_note(rest, f)
              [] args.cmd = "clear" ->
                    LET r == clear(f.profile, args.flag_yes, answer)
                    IN  IF r.err # "" THEN Failed(r.err) ELSE Save(r.val)
              [] args.cmd = "decrypt_profile" ->
                    \* 223-226
                    Save([f.profile EXCEPT !.encrypted = FALSE])
              [] args.cmd = "encrypt_profile" ->
                    \* 231-244: args.flag_encrypted and args.flag_key are set
                    SaveWith([f.profile EXCEPT !.encrypted = TRUE],
                             [args EXCEPT !.flag_encrypted = TRUE,
                                          !.flag_key = args.flag_new_key])
              [] args.cmd = "new_profile" ->
                    Save(f.profile)
        ELSE IF args.arg_id # <<>>
        THEN \* 255-256: an id: the note is shown, whatever the command
             Done(view_note(f.profile, args.arg_id[1]))
        ELSE IF args.cmd = "search"
        THEN Done(search_notes(f.profile, args.arg_pattern, args.flag_limit,
                               flags, args.status))
        ELSE IF args.cmd = "info"
        THEN Done(stats(f.profile))
        ELSE IF args.cmd = "import"
        THEN \* 261-277: Profile::new for the profile that is named
             IF args.arg_name = <<>> THEN Failed(IndexOutOfBounds)
             ELSE ProfileNew(Append(rest, [f EXCEPT !.pc = "import"]),
                             FromArgs(args))
        ELSE IF args.cmd = "list_profiles"
        THEN \* 279-281: the names of the files are printed
             Done(Ok(f.profile))
        ELSE Done(list_notes(f.profile, args.flag_limit, flags, args.status))

\* a plausible slip: a declined merge question skips the merge, not the save
SaveToFileDeclinedWrites(f, file, overwrite, merge) ==
    IF f.args.cmd = "new_profile" /\ file.exists /\ ~f.args.flag_yes /\ ~overwrite
    THEN UserAborted
    ELSE IF f.fp > 0 /\ file.exists
            /\ profile_fingerprint(file.bytes) # f.fp /\ ~f.args.flag_yes /\ merge
         THEN "merge"
         ELSE "write"

\* a plausible slip: a new profile replaces an existing file unasked
SaveToFileOverwrites(f, file, overwrite, merge) ==
    IF f.fp > 0
    THEN IF ~file.exists THEN "io error"
         ELSE IF profile_fingerprint(file.bytes) # f.fp /\ ~f.args.flag_yes
              THEN IF merge THEN "merge" ELSE UserAborted
              ELSE "write"
    ELSE "write"

\* a plausible slip: the file is checked against the fingerprint whatever
\* the fingerprint is
SaveToFileCheckAlways(f, file, overwrite, merge) ==
    IF file.exists /\ profile_fingerprint(file.bytes) # f.fp /\ ~f.args.flag_yes
    THEN IF merge THEN "merge" ELSE UserAborted
    ELSE "write"

\* save_to_file 133-170, up to the decision: "write" (172-193), "merge"
\* (150-168) or the error.  overwrite and merge are what get_yn_input
\* returns when the one or the other question is asked.
save_to_file_check(f, file, overwrite, merge) ==
    IF f.args.cmd = "new_profile" /\ file.exists /\ ~f.args.flag_yes /\ ~overwrite
    THEN UserAborted
    ELSE IF f.fp > 0
         THEN IF ~file.exists THEN "io error"
              ELSE IF profile_fingerprint(file.bytes) # f.fp /\ ~f.args.flag_yes
                   THEN IF merge THEN "merge" ELSE UserAborted
                   ELSE "write"
         ELSE "write"

\* save_to_file 152-156: new_args.flag_body[0] is assigned, which panics
\* on a flag_body without elements
NewArgsPanics(f) == f.args.flag_editor /\ f.args.flag_body = <<>>

\* save_to_file 150-157: the arguments of the replay.  self is the profile
\* save_to_file was called on
NewArgs(f) ==
    IF f.args.flag_editor
    THEN [f.args EXCEPT
            !.flag_editor = FALSE,
            !.flag_body = <<IF f.profile.notes = <<>> THEN <<>>
                            ELSE f.profile.notes[Len(f.profile.notes)].body>>
                          \o Tail(f.args.flag_body)]
    ELSE f.args

(***************************************************************************)
(* State.                                                                  *)
(***************************************************************************)
VARIABLES
    files,      \* the profile folder: name -> [exists, bytes]
    stack,      \* per invocation: its call stack, <<>> when it is not running
    outcome,    \* per invocation: "idle", "running", "ok" or the error
    scenario,   \* which invocations run: "pair", "crypt" or "nested"
    cur,        \* history: the command line of the invocation
    base,       \* history: bytes and fingerprint main loaded the profile with
    changed,    \* history: the files whose content the invocation's writes changed
    overlap,    \* history: another invocation wrote while this one was in a save
    lost,       \* history: a write replaced bytes the writer had never read
    lastWrite,  \* history: the last write of the invocation
    prof,       \* SpecOps: the profile the operations are applied to
    used,       \* SpecOps: every id add_note has assigned so far
    lastOp,     \* SpecOps: the operation applied last, with the state before
    nops        \* SpecOps: operations applied

storeVars == <<files, stack, outcome, scenario, cur, base, changed, overlap, lost,
               lastWrite>>

opsVars == <<prof, used, lastOp, nops>>

vars == <<storeVars, opsVars>>

NoFile == [exists |-> FALSE, bytes |-> <<>>]
FileOf(profile) == [exists |-> TRUE, bytes |-> Encode(profile)]

\* save_to_file 172-193: the file as the save leaves it
Written(f) == [exists |-> TRUE, bytes |-> Contents(f.profile, f.args.flag_key)]

NoWrite == [name |-> "", before |-> NoFile, after |-> <<>>, fp |-> 0,
            origin |-> <<>>]

NoOp == [op |-> "none", id |-> <<>>, before |-> <<>>, usedBefore |-> {}]

InitOps ==
    /\ prof = Profile(FALSE, <<>>)
    /\ used = {}
    /\ lastOp = NoOp
    /\ nops = 0

\* the invocations not yet started, the files as earlier invocations left them
Idle ==
    /\ stack = [p \in Procs |-> <<>>]
    /\ outcome = [p \in Procs |-> "idle"]
    /\ cur = [p \in Procs |-> NoArgs]
    /\ base = [p \in Procs |-> [bytes |-> <<>>, fp |-> 0]]
    /\ changed = [p \in Procs |-> {}]
    /\ overlap = [p \in Procs |-> FALSE]
    /\ lost = [p \in Procs |-> FALSE]
    /\ lastWrite = [p \in Procs |-> NoWrite]

\* profile A exists, as adds and deletes left it; profile B exists, as adds
\* left it, or was never created
InitStore ==
    /\ scenario = "pair"
    /\ \E a \in InitNotes, hasB \in BOOLEAN,
          b \in {NotesOfIds(1..k, 1) : k \in 0..MaxInitId} :
            /\ hasB \/ b = <<>>
            /\ files = [n \in Names |->
                          IF n = "A" THEN FileOf(Profile(FALSE, a))
                          ELSE IF hasB THEN FileOf(Profile(FALSE, b))
                          ELSE NoFile]
    /\ Idle

\* three invocations adding to profile A
InitNested ==
    /\ scenario = "nested"
    /\ files = [n \in Names |-> IF n = "A" THEN FileOf(Profile(FALSE, <<>>))
                                ELSE NoFile]
    /\ Idle

\* profile A exists, in plain text or encrypted under the key "a"
InitCrypt ==
    /\ scenario = "crypt"
    /\ \E a \in InitNotes, e \in BOOLEAN :
            files = [n \in Names |->
                        IF n = "A"
                        THEN [exists |-> TRUE,
                              bytes |-> Contents(Profile(e, a), <<"a">>)]
                        ELSE NoFile]
    /\ Idle

Init == InitStore /\ InitOps

InitSealed == InitCrypt /\ InitOps

InitQuiet == InitNested /\ InitOps

(***************************************************************************)
(* Spec: invocations of the tool, each a process of its own, on the files  *)
(* of one profile folder.                                                  *)
(***************************************************************************)
Top(p) == stack[p][Len(stack[p])]

At(p, fn, pc) == stack[p] # <<>> /\ Top(p).fn = fn /\ Top(p).pc = pc

\* the invocation is inside a save_to_file that has made its check
InSave(p) ==
    \E i \in DOMAIN stack[p] :
        stack[p][i].fn = "save_to_file" /\ stack[p][i].pc # "check"

\* the step's result becomes the invocation's state
Goes(p, r) ==
    /\ stack' = [stack EXCEPT ![p] = r.stack]
    /\ outcome' = [outcome EXCEPT ![p] =
            IF r.err # "" THEN r.err
            ELSE IF r.stack = <<>> THEN "ok" ELSE "running"]

\* main: the tool is started with a command line; Profile::new
Main(p, args) ==
    /\ outcome[p] = "idle"
    /\ args \in LinesOf(scenario, p)
    /\ Goes(p, ProfileNew(<<Frame("main", "new", Profile(FALSE, <<>>), args,
                                  0, <<>>)>>, args))
    /\ cur' = [cur EXCEPT ![p] = args]
    /\ base' = [base EXCEPT ![p] = [bytes |-> <<>>, fp |-> 0]]
    /\ changed' = [changed EXCEPT ![p] = {}]
    /\ overlap' = [overlap EXCEPT ![p] = FALSE]
    /\ lost' = [lost EXCEPT ![p] = FALSE]
    /\ lastWrite' = [lastWrite EXCEPT ![p] = NoWrite]
    /\ UNCHANGED <<files, scenario, opsVars>>

\* from_existing_profile 62-83: the file is read and decoded
FromExistingRead(p) ==
    /\ At(p, "new", "read")
    /\ LET f == Top(p)
           file == files[f.args.flag_profile]
           r == Loaded(file, f.args.flag_key, f.args.flag_encrypted)
       IN  Goes(p, IF r.err # "" THEN Failed(r.err)
                   ELSE Going(Append(Front(stack[p]),
                              [f EXCEPT !.pc = "fingerprint",
                                        !.profile = r.val,
                                        !.origin = file.bytes])))
    /\ UNCHANGED <<files, scenario, cur, base, changed, overlap, lost, lastWrite,
                   opsVars>>

\* from_existing_profile 84-85: the fingerprint of the file as it is now
FromExistingFingerprint(p) ==
    /\ At(p, "new", "fingerprint")
    /\ LET f == Top(p)
           fp == profile_fingerprint(files[f.args.flag_profile].bytes)
       IN  /\ Goes(p, Resume(Front(stack[p]),
                             Ret(f.profile, f.args, fp, f.origin)))
           /\ base' = IF Len(stack[p]) = 2
                      THEN [base EXCEPT ![p] = [bytes |-> f.origin, fp |-> fp]]
                      ELSE base
    /\ UNCHANGED <<files, scenario, cur, changed, overlap, lost, lastWrite,
                   opsVars>>

\* parse_cmds: the command, up to the first file access it leads to
ParseCmds(p, answer) ==
    /\ At(p, "parse_cmds", "dispatch")
    /\ Goes(p, parse_cmds(stack[p], answer))
    /\ UNCHANGED <<files, scenario, cur, base, changed, overlap, lost, lastWrite,
                   opsVars>>

\* save_to_file 122-170: the checks before the write, and the questions
SaveToFile(p, overwrite, merge) ==
    /\ At(p, "save_to_file", "check")
    /\ LET f == Top(p)
           d == save_to_file_check(f, files[SavePath(f.args)], overwrite, merge)
       IN  Goes(p, CASE d = "write" ->
                        Going(Append(Front(stack[p]), [f EXCEPT !.pc = "write"]))
                     [] d = "merge" ->
                        IF NewArgsPanics(f) THEN Failed(IndexOutOfBounds)
                        ELSE ProfileNew(Append(Front(stack[p]),
                                               [f EXCEPT !.pc = "reload",
                                                         !.args = NewArgs(f)]),
                                        NewArgs(f))
                     [] OTHER -> Failed(d))
    /\ UNCHANGED <<files, scenario, cur, base, changed, overlap, lost, lastWrite,
                   opsVars>>

\* a plausible slip: the file is compared with the fingerprint once more
\* where it is written, and a file that has changed is left alone
SaveToFileWriteChecked(p) ==
    /\ At(p, "save_to_file", "write")
    /\ LET f == Top(p)
           path == SavePath(f.args)
           before == files[path]
           after == Written(f)
           stale == /\ f.fp > 0
                    /\ before.exists
                    /\ profile_fingerprint(before.bytes) # f.fp
       IN  /\ files' = IF stale THEN files ELSE [files EXCEPT ![path] = after]
           /\ Goes(p, IF stale THEN Failed(UserAborted)
                       ELSE Resume(Front(stack[p]),
                                   Ret(f.profile, f.args, f.fp, f.origin)))
           /\ changed' = [changed EXCEPT ![p] =
                            IF stale \/ before = after THEN @ ELSE @ \cup {path}]
           /\ UNCHANGED <<lost, overlap, lastWrite>>
    /\ UNCHANGED <<scenario, cur, base, opsVars>>

\* save_to_file 172-193: the file is created and the profile written
SaveToFileWrite(p) ==
    /\ At(p, "save_to_file", "write")
    /\ LET f == Top(p)
           path == SavePath(f.args)
           before == files[path]
           after == Written(f)
       IN  /\ files' = [files EXCEPT ![path] = after]
           /\ Goes(p, Resume(Front(stack[p]),
                             Ret(f.profile, f.args, f.fp, f.origin)))
           /\ changed' = [changed EXCEPT ![p] =
                            IF before = after THEN @ ELSE @ \cup {path}]
           /\ lost' = [lost EXCEPT ![p] =
                            @ \/ (/\ before.exists
                                  /\ f.args.cmd # "new_profile"
                                  /\ before.bytes \notin {f.origin, after.bytes})]
           /\ overlap' = [q \in Procs |->
                            overlap[q] \/ (q # p /\ InSave(q))]
           /\ lastWrite' = [lastWrite EXCEPT ![p] =
                            [name |-> path, before |-> before,
                             after |-> after.bytes, fp |-> f.fp,
                             origin |-> f.origin]]
    /\ UNCHANGED <<scenario, cur, base, opsVars>>

Next ==
    \/ \E p \in Procs,
          args \in CmdLines \cup WriterLines \cup CryptLines \cup CryptWriterLines :
            Main(p, args)
    \/ \E p \in Procs : FromExistingRead(p)
    \/ \E p \in Procs : FromExistingFingerprint(p)
    \/ \E p \in Procs, answer \in BOOLEAN : ParseCmds(p, answer)
    \/ \E p \in Procs, overwrite \in BOOLEAN, merge \in BOOLEAN :
            SaveToFile(p, overwrite, merge)
    \/ \E p \in Procs : SaveToFileWrite(p)

Spec == Init /\ [][Next]_vars

SpecNested == InitQuiet /\ [][Next]_vars

SpecCrypt == InitSealed /\ [][Next]_vars

(***************************************************************************)
(* SpecOps: add, delete and clear applied in any order to one profile that *)
(* starts empty (Profile::from_scratch).                                   *)
(***************************************************************************)
OpAdd(title) ==
    /\ nops < MaxOps
    /\ prof' = add_note(prof, title, <<>>, NoStatus, FALSE, FALSE, NoIo)
    /\ used' = used \cup {prof'.notes[Len(prof'.notes)].id}
    /\ lastOp' = [op |-> "add", id |-> <<>>, before |-> prof.notes,
                  usedBefore |-> used]
    /\ nops' = nops + 1
    /\ UNCHANGED storeVars

OpDelete(id) ==
    /\ nops < MaxOps
    /\ prof' = delete_note(prof, id)
    /\ lastOp' = [op |-> "del", id |-> id, before |-> prof.notes,
                  usedBefore |-> used]
    /\ nops' = nops + 1
    /\ UNCHANGED <<used, storeVars>>

OpClear(yes, answer) ==
    /\ nops < MaxOps
    /\ LET r == clear(prof, yes, answer)
       IN  /\ prof' = r.val
           /\ lastOp' = [op |-> IF r.err = "" THEN "clear" ELSE "aborted",
                         id |-> <<>>, before |-> prof.notes,
                         usedBefore |-> used]
    /\ nops' = nops + 1
    /\ UNCHANGED <<used, storeVars>>

NextOps ==
    \/ \E title \in Titles : OpAdd(title)
    \/ \E id \in IdLists(prof.notes) : OpDelete(id)
    \/ \E yes \in BOOLEAN, answer \in BOOLEAN : OpClear(yes, answer)

SpecOps == InitQuiet /\ [][NextOps]_vars

(***************************************************************************)
(* Claims about the note operations (SpecOps).                             *)
(***************************************************************************)
NewNote == prof.notes[Len(prof.notes)]

\* C7: add_note appends exactly one note, whose id is the largest prior id
\* plus one (1 for an empty profile); the prior notes keep value and order.
C7_AddAssignsMaxPlusOne ==
    lastOp.op = "add" =>
        /\ Len(prof.notes) = Len(lastOp.before) + 1
        /\ SubSeq(prof.notes, 1, Len(lastOp.before)) = lastOp.before
        /\ NewNote.id = MaxIdOf(lastOp.before) + 1

\* an add onto a profile whose ids have a gap (a note was deleted before)
C7_Witness ==
    /\ lastOp.op = "add"
    /\ Len(lastOp.before) >= 1
    /\ MaxIdOf(lastOp.before) > Len(lastOp.before)

\* C8: over any sequence of add, delete and clear, an id once assigned to a
\* note is never assigned to a note added later.
C8_NeverReused ==
    lastOp.op = "add" => NewNote.id \notin lastOp.usedBefore

\* C10: delete_note removes exactly the notes whose id is in the list, keeps
\* the others in order, whatever absent or repeated ids the list holds.
C10_DeleteRemovesExactlyListed ==
    lastOp.op = "del" =>
        prof.notes = SelectSeq(lastOp.before,
                               LAMBDA n : n.id \notin Range(lastOp.id))

\* a delete whose list starts with an absent id and then names a present one
C10_Witness ==
    /\ lastOp.op = "del"
    /\ Len(lastOp.id) = 2
    /\ lastOp.id[1] \notin IdsOf(lastOp.before)
    /\ lastOp.id[2] \in IdsOf(lastOp.before)
    /\ Len(prof.notes) = Len(lastOp.before) - 1
    /\ prof.notes # <<>>

(***************************************************************************)
(* Claims about the store (Spec, SpecNested).                              *)
(***************************************************************************)
NotesIn(name) == Decode(files[name].bytes).notes

\* the command of a command line applied to a profile, with every question
\* answered yes
CommandOn(profile, args) ==
    CASE args.cmd = "add" ->
            add_note(profile, args.arg_title, args.flag_body, args.status,
                     args.cmd__, args.flag_editor, NoIo)
      [] args.cmd = "del" -> delete_note(profile, args.arg_id)
      [] args.cmd = "clear" -> [profile EXCEPT !.notes = <<>>]
      [] OTHER -> profile

\* C1: a profile loaded with fingerprint F # 0, its file changed by another
\* writer before the save (none writes during it), saved with flag_yes: the
\* file then holds the changed file's profile with the command applied, not
\* the profile in memory.
C1_MergeWhenPreauthorized ==
    \A p \in Procs :
        LET w == lastWrite[p]
        IN  (/\ w.name # ""
             /\ cur[p].cmd \in {"add", "del", "clear"}
             /\ cur[p].flag_yes
             /\ ~overlap[p]
             /\ w.fp > 0
             /\ w.before.exists
             /\ profile_fingerprint(w.before.bytes) # w.fp)
            => w.after = Encode(CommandOn(Decode(w.before.bytes), cur[p]))

\* two invocations that loaded the same file, add, and save one after the other
BothAdded(p, q) ==
    /\ p # q
    /\ outcome[p] = "ok" /\ outcome[q] = "ok"
    /\ cur[p].cmd = "add" /\ cur[q].cmd = "add"
    /\ cur[p].flag_profile = cur[q].flag_profile
    /\ ~cur[p].flag_yes /\ ~cur[q].flag_yes
    /\ base[p] = base[q]
    /\ base[p].fp = profile_fingerprint(base[p].bytes)
    /\ ~overlap[p] /\ ~overlap[q]

Merging(p) ==
    {i \in DOMAIN stack[p] :
        /\ stack[p][i].fn = "save_to_file"
        /\ stack[p][i].pc \in {"reload", "replay", "final"}}

\* C3: in one invocation at most one save is in its merge path (one reload
\* and replay), and every save made during or after the replay has
\* fingerprint 0.
C3_OneReplayThenUnchecked ==
    \A p \in Procs :
        /\ Cardinality(Merging(p)) <= 1
        /\ \A i \in Merging(p), j \in DOMAIN stack[p] :
              (j > i /\ stack[p][j].fn = "save_to_file") => stack[p][j].fp = 0

\* a step of invocation p out of the check of a save with fingerprint 0
ZeroSaveChecked(p) ==
    /\ At(p, "save_to_file", "check")
    /\ Top(p).fp = 0
    /\ stack'[p] # stack[p]

\* the step after it: the write of the profile in memory
ZeroSaveWrites(p) ==
    /\ At(p, "save_to_file", "write") /\ Top(p).fp = 0 /\ stack'[p] # stack[p]
    => files'[SavePath(Top(p).args)] = FileOf(Top(p).profile)

\* a profile made by Profile::new with new_profile is empty when parse_cmds
\* gets it, and every save of the invocation has fingerprint 0
ScratchIsEmptyAndZero(p) ==
    cur[p].cmd = "new_profile" =>
        \A i \in DOMAIN stack[p] :
            /\ stack[p][i].fp = 0
            /\ stack[p][i].fn = "parse_cmds" => stack[p][i].profile.notes = <<>>

\* C4 as stated: a save with fingerprint 0 goes from its check to the write
\* of the profile in memory, whatever the file holds; a profile created from
\* scratch is empty and has fingerprint 0.
C4_ZeroFingerprintAlwaysWrites ==
    [][\A p \in Procs :
          /\ ZeroSaveChecked(p) =>
                /\ At(p, "save_to_file", "write")'
                /\ Top(p)'.profile = Top(p).profile
          /\ ZeroSaveWrites(p)
          /\ ScratchIsEmptyAndZero(p)]_vars

\* C4 as amended: the same, except that a new-profile save onto an existing
\* file, without flag_yes, whose overwrite question is declined ends with
\* the user-aborted error and writes nothing.
C4_ZeroFingerprintWritesUnlessOverwriteDeclined ==
    [][\A p \in Procs :
          /\ ZeroSaveChecked(p) =>
                \/ /\ At(p, "save_to_file", "write")'
                   /\ Top(p)'.profile = Top(p).profile
                \/ /\ Top(p).args.cmd = "new_profile"
                   /\ files[SavePath(Top(p).args)].exists
                   /\ ~Top(p).args.flag_yes
                   /\ outcome'[p] = UserAborted
                   /\ stack'[p] = <<>>
                   /\ files' = files
          /\ ZeroSaveWrites(p)
          /\ ScratchIsEmptyAndZero(p)]_vars

\* a save with fingerprint 0 has replaced a file that held something else
C4_Witness ==
    \E p \in Procs :
        /\ lastWrite[p].name # ""
        /\ lastWrite[p].fp = 0
        /\ lastWrite[p].before.exists
        /\ lastWrite[p].before.bytes # lastWrite[p].after
        /\ lastWrite[p].before.bytes # lastWrite[p].origin

\* the file of the save differs from the fingerprint the save was given
Diverged(p) ==
    /\ At(p, "save_to_file", "check")
    /\ Top(p).fp > 0
    /\ ~Top(p).args.flag_yes
    /\ files[SavePath(Top(p).args)].exists
    /\ profile_fingerprint(files[SavePath(Top(p).args)].bytes) # Top(p).fp

\* C5: the file diverged and the merge question is declined: the save fails
\* with the user-aborted error, the invocation ends there (nothing is
\* written later) and no file changes.
C5_DeclinedMergeWritesNothing ==
    [][\A p \in Procs :
          (Diverged(p) /\ \E o \in BOOLEAN : SaveToFile(p, o, FALSE)) =>
              /\ outcome'[p] = UserAborted
              /\ stack'[p] = <<>>
              /\ files' = files
              /\ changed'[p] = changed[p]]_vars

\* an add (which asks nothing else) was aborted at the merge question
C5_Witness ==
    \E p \in Procs :
        /\ cur[p].cmd = "add"
        /\ outcome[p] = UserAborted
        /\ files[cur[p].flag_profile].bytes # base[p].bytes

\* C6: a command that ends with the user-aborted error has changed no
\* profile file.
C6_AbortCommitsNothing ==
    \A p \in Procs : outcome[p] = UserAborted => changed[p] = {}

Unique(notes) ==
    \A i, j \in DOMAIN notes : notes[i].id = notes[j].id => i = j

\* C9: no two notes of a profile share an id, in the files and in every
\* profile an invocation holds in memory.
C9_IdsUnique ==
    /\ \A n \in Names : files[n].exists => Unique(NotesIn(n))
    /\ \A p \in Procs : \A i \in DOMAIN stack[p] :
            Unique(stack[p][i].profile.notes)

\* a transfer has ended well, beside another invocation that wrote, and
\* both its profiles hold notes
C9_Witness ==
    \E p, q \in Procs :
        /\ cur[p].cmd = "transfer" /\ outcome[p] = "ok"
        /\ changed[q] # {} /\ q # p
        /\ Len(NotesIn(cur[p].arg_name[1])) >= 2
        /\ NotesIn(cur[p].flag_profile) # <<>>

\* the frame under the top of p's stack
Under(p) == stack[p][Len(stack[p]) - 1]

\* the step of a transfer_note of p that has the destination loaded and
\* finds the note in self
TransferCopies(p) ==
    /\ At(p, "new", "fingerprint")
    /\ Len(stack[p]) >= 2
    /\ Under(p).fn = "transfer_note"
    /\ Under(p).args.arg_id # <<>>
    /\ Under(p).args.arg_id[1] \in IdsOf(Under(p).profile.notes)
    /\ stack'[p] # stack[p]

\* after it: self is without the note, the destination has one note more,
\* a copy under the id add_note gives, and is being saved to its file
TransferCopied(p) ==
    LET a == Under(p).profile.notes
        b == Top(p).profile.notes
        id == Under(p).args.arg_id[1]
        n == a[Position(a, id)]
        a2 == Under(p)'.profile.notes
        b2 == Top(p)'.profile.notes
    IN  /\ outcome'[p] = "running"
        /\ Len(stack'[p]) = Len(stack[p])
        /\ Under(p)'.fn = "transfer_note"
        /\ Top(p)'.fn = "save_to_file"
        /\ SavePath(Top(p)'.args) = Under(p).args.arg_name[1]
        /\ a2 = SelectSeq(a, LAMBDA m : m.id # id)
        /\ Len(b2) = Len(b) + 1
        /\ SubSeq(b2, 1, Len(b)) = b
        /\ b2[Len(b2)].title = n.title
        /\ b2[Len(b2)].body = n.body
        /\ b2[Len(b2)].status = n.status
        /\ b2[Len(b2)].id = IF b = <<>> THEN 1 ELSE b[Len(b)].id + 1

\* the write of the destination by a transfer_note of p: the destination's
\* file gets the profile with the copy, no other file changes, and
\* parse_cmds goes on to save self, without the note, to the source's file
TransferWrites(p) ==
    (/\ At(p, "save_to_file", "write")
     /\ Len(stack[p]) >= 2
     /\ Under(p).fn = "transfer_note"
     /\ stack'[p] # stack[p])
    => /\ files' = [files EXCEPT ![Under(p).args.arg_name[1]] =
                                     FileOf(Top(p).profile)]
       /\ Top(p)'.fn = "save_to_file"
       /\ SavePath(Top(p)'.args) = Under(p).args.flag_profile
       /\ Top(p)'.profile = Under(p).profile

\* C11: a transfer_note that finds the note leaves self (profile A) without
\* it and its other notes as they were, appends to the destination (profile
\* B) one note with the same title, body and status under B's last id + 1
\* (1 if B was empty), B's other notes as they were; B's file gets that
\* profile and A, without the note, is what parse_cmds then saves.
C11_TransferMovesOneNote ==
    [][\A p \in Procs :
          /\ TransferCopies(p) => TransferCopied(p)
          /\ TransferWrites(p)]_vars

\* a transfer has written a destination that held notes before, and the
\* source keeps another note
C11_Witness ==
    \E p \in Procs :
        /\ At(p, "save_to_file", "check")
        /\ Len(stack[p]) >= 2
        /\ Under(p).fn = "parse_cmds"
        /\ Top(p).args.cmd = "transfer"
        /\ Top(p).profile.notes # <<>>
        /\ changed[p] = {Top(p).args.arg_name[1]}
        /\ Len(NotesIn(Top(p).args.arg_name[1])) >= 2

\* C12: a transfer of p that has written the copy to the destination and
\* then fails to take the note out of the source reports the error of a
\* removal that failed, and the destination's file keeps the copy.
C12_RemovalFailureReported ==
    \A p \in Procs :
        (/\ cur[p].cmd = "transfer"
         /\ outcome[p] \notin {"idle", "running", "ok"}
         /\ cur[p].arg_name[1] \in changed[p])
        => /\ outcome[p] = RemovalFailed
           /\ NotesIn(cur[p].arg_name[1]) # <<>>
           /\ lastWrite[p].after = files[cur[p].arg_name[1]].bytes

\* the dispatch of a transfer whose two profile names are the same
TransfersToItself(p) ==
    /\ At(p, "parse_cmds", "dispatch")
    /\ Top(p).args.cmd = "transfer"
    /\ Top(p).args.flag_profile = Top(p).args.arg_name[1]
    /\ stack'[p] # stack[p]

\* C13: a transfer from a profile to itself fails with the error of
\* transfer_note 199-204 and ends the invocation there: no file is loaded
\* or written, and no transfer_note ever gets past the check with equal names.
C13_SelfTransferFails ==
    [][\A p \in Procs :
          /\ TransfersToItself(p) =>
                /\ outcome'[p] = SelfTransfer
                /\ stack'[p] = <<>>
                /\ files' = files
                /\ changed'[p] = changed[p]
          /\ \A i \in DOMAIN stack[p] :
                stack[p][i].fn = "transfer_note" =>
                    stack[p][i].args.flag_profile # stack[p][i].args.arg_name[1]]_vars

\* a transfer of a note the profile holds, to the profile itself, has failed
C13_Witness ==
    \E p \in Procs :
        /\ outcome[p] = SelfTransfer
        /\ cur[p].cmd = "transfer"
        /\ cur[p].flag_profile = cur[p].arg_name[1]
        /\ cur[p].arg_id[1] \in IdsOf(NotesIn(cur[p].flag_profile))

\* the dispatch of an edit or a view of an id no note of the profile has
AbsentId(p) ==
    /\ At(p, "parse_cmds", "dispatch")
    /\ Top(p).args.cmd \in {"edit", "view"}
    /\ Top(p).args.arg_id[1] \notin IdsOf(Top(p).profile.notes)
    /\ stack'[p] # stack[p]

\* C14: edit_note and view_note of an id no note has fail with the
\* note-not-found error and leave the notes as they were; the invocation
\* ends there, so that nothing is saved.
C14_AbsentIdFails ==
    [][\A p \in Procs :
          AbsentId(p) =>
              LET f == Top(p)
                  e == edit_note(f.profile, f.args.arg_id[1], f.args.arg_title,
                                 f.args.flag_body, f.args.status, f.args.cmd__,
                                 BoolFlags(f.args), NoIo, TRUE)
                  v == view_note(f.profile, f.args.arg_id[1])
              IN  /\ e.err = NoteNotFound /\ e.val = f.profile
                  /\ v.err = NoteNotFound /\ v.val = f.profile
                  /\ outcome'[p] = NoteNotFound
                  /\ stack'[p] = <<>>
                  /\ files' = files
                  /\ changed'[p] = changed[p]]_vars

\* an edit of an absent id has failed on a profile that holds notes
C14_Witness ==
    \E p \in Procs :
        /\ outcome[p] = NoteNotFound
        /\ cur[p].cmd = "edit"
        /\ base[p].bytes # Encode(Profile(FALSE, <<>>))
        /\ changed[p] = {}

\* the check of a new-profile save whose file exists
OntoExisting(p) ==
    /\ At(p, "save_to_file", "check")
    /\ Top(p).args.cmd = "new_profile"
    /\ files[SavePath(Top(p).args)].exists

\* C18: a new-profile save onto an existing file: without flag_yes and with
\* the question declined it fails with the user-aborted error and no file
\* changes; with the question accepted, or with flag_yes, it goes on to the
\* write, which replaces the file by the new, empty, profile.
C18_OverwriteOnlyConfirmed ==
    [][\A p \in Procs :
          /\ (/\ OntoExisting(p) /\ ~Top(p).args.flag_yes
               /\ \E m \in BOOLEAN : SaveToFile(p, FALSE, m))
              => /\ outcome'[p] = UserAborted
                 /\ stack'[p] = <<>>
                 /\ files' = files
          /\ (/\ OntoExisting(p)
               /\ \/ Top(p).args.flag_yes /\ stack'[p] # stack[p]
                  \/ \E m \in BOOLEAN : SaveToFile(p, TRUE, m))
              => /\ At(p, "save_to_file", "write")'
                 /\ Top(p)'.profile = Top(p).profile
          /\ (/\ At(p, "save_to_file", "write")
               /\ Top(p).args.cmd = "new_profile"
               /\ stack'[p] # stack[p])
              => files' = [files EXCEPT ![Top(p).args.arg_name[1]] =
                                           FileOf(Profile(FALSE, <<>>))]]_vars

\* a new profile has replaced, after the question, a file that held notes
C18_Witness ==
    \E p \in Procs :
        /\ cur[p].cmd = "new_profile"
        /\ ~cur[p].flag_yes
        /\ outcome[p] = "ok"
        /\ lastWrite[p].before.exists
        /\ Decode(lastWrite[p].before.bytes).notes # <<>>
        /\ NotesIn(lastWrite[p].name) = <<>>

(***************************************************************************)
(* SpecNotes: the one command of an invocation, an edit, a view, a list, a *)
(* search, or a save followed by a load, on the profile it has loaded.     *)
(***************************************************************************)
\* the notes as an earlier edit of the first of them left them
EditedEarlier(notes) ==
    IF notes = <<>> THEN notes
    ELSE edit_note(Profile(FALSE, notes), notes[1].id, <<>>, <<>>, "Started",
                   FALSE, [editor |-> FALSE, encrypted |-> FALSE, yes |-> FALSE],
                   NoIo, TRUE).val.notes

InitProfile ==
    /\ scenario = "notes"
    /\ \E e \in BOOLEAN, n \in InitNotes \cup {EditedEarlier(m) : m \in InitNotes} :
          /\ prof = Profile(e, n)
          /\ files = [f \in Names |->
                        IF f = "A"
                        THEN [exists |-> TRUE, bytes |-> Contents(prof, <<"a">>)]
                        ELSE NoFile]
    /\ used = {}
    /\ lastOp = NoOp
    /\ nops = 0
    /\ Idle

OpEdit(id, title, body, status, use_stdin, editor, yes, io, answer) ==
    /\ nops = 0
    /\ LET flags == [editor |-> editor, encrypted |-> prof.encrypted,
                     yes |-> yes]
           r == edit_note(prof, id, title, body, status, use_stdin, flags, io,
                          answer)
       IN  /\ prof' = r.val
           /\ lastOp' = [op |-> "edit", before |-> prof, id |-> id,
                         title |-> title, body |-> body, status |-> status,
                         use_stdin |-> use_stdin, flags |-> flags, io |-> io,
                         err |-> r.err]
    /\ nops' = nops + 1
    /\ UNCHANGED <<used, storeVars>>

OpView(id) ==
    /\ nops = 0
    /\ LET r == view_note(prof, id)
       IN  /\ prof' = r.val
           /\ lastOp' = [op |-> "view", before |-> prof, id |-> id,
                         err |-> r.err]
    /\ nops' = nops + 1
    /\ UNCHANGED <<used, storeVars>>

OpList(limit, datesort, reverse, status) ==
    /\ nops = 0
    /\ LET flags == [datesort |-> datesort, reverse |-> reverse,
                     regex |-> FALSE, search_body |-> FALSE]
           r == list_notes(prof, limit, flags, status)
       IN  /\ prof' = r.val
           /\ lastOp' = [op |-> "list", before |-> prof, limit |-> limit,
                         flags |-> flags, status |-> status, out |-> r.out,
                         err |-> r.err]
    /\ nops' = nops + 1
    /\ UNCHANGED <<used, storeVars>>

OpSearch(pattern, limit, datesort, reverse, regex, search_body) ==
    /\ nops = 0
    /\ LET flags == [datesort |-> datesort, reverse |-> reverse,
                     regex |-> regex, search_body |-> search_body]
           r == search_notes(prof, pattern, limit, flags, NoStatus)
       IN  /\ prof' = r.val
           /\ lastOp' = [op |-> "search", before |-> prof, limit |-> limit,
                         pattern |-> pattern, flags |-> flags, out |-> r.out,
                         err |-> r.err]
    /\ nops' = nops + 1
    /\ UNCHANGED <<used, storeVars>>

\* the profile is written to the file of A and the file is loaded again
OpSaveLoad(key) ==
    /\ nops = 0
    /\ files' = [files EXCEPT !["A"] =
                    [exists |-> TRUE, bytes |-> Contents(prof, key)]]
    /\ lastOp' = [op |-> "save, load", before |-> prof, key |-> key,
                  loaded |-> Loaded(files'["A"], key, prof.encrypted)]
    /\ nops' = nops + 1
    /\ UNCHANGED <<prof, used, stack, outcome, scenario, cur, base, changed,
                   overlap, lost, lastWrite>>

NextNotes ==
    \/ \E id \in 1..(MaxInitId + 1), title \in {<<>>, <<"b">>, <<"-">>},
          body \in {<<>>, <<<<"b">>>>}, status \in {NoStatus, "Started"},
          use_stdin \in BOOLEAN, editor \in BOOLEAN, yes \in BOOLEAN,
          io \in {Piped, Terminal}, answer \in BOOLEAN :
            OpEdit(id, title, body, status, use_stdin, editor, yes, io, answer)
    \/ \E id \in 1..(MaxInitId + 1) : OpView(id)
    \/ \E limit \in 0..MaxInitId, datesort \in BOOLEAN, reverse \in BOOLEAN,
          status \in {NoStatus, "Urgent"} :
            OpList(limit, datesort, reverse, status)
    \/ \E pattern \in {<<"a">>, <<"b">>, <<"(">>}, limit \in 0..1,
          datesort \in BOOLEAN, reverse \in BOOLEAN, regex \in BOOLEAN,
          search_body \in BOOLEAN :
            OpSearch(pattern, limit, datesort, reverse, regex, search_body)
    \/ \E key \in Keys : OpSaveLoad(key)

SpecNotes == InitProfile /\ [][NextNotes]_vars

(***************************************************************************)
(* Claims about edit_note (SpecNotes).                                     *)
(***************************************************************************)
\* the note an edit was told to change, before and after the call
EditedBefore == lastOp.before.notes[Position(lastOp.before.notes, lastOp.id)]
EditedAfter == prof.notes[Position(lastOp.before.notes, lastOp.id)]

\* an edit that found its note and was not aborted
Edited ==
    /\ lastOp.op = "edit"
    /\ lastOp.err = ""

\* C15: after an edit_note whose title is "-" the note has the title it had
\* and its body is what stdin gave, whatever body or editor flag the call
\* was given as well.
C15_DashTitleTakesStdin ==
    (Edited /\ StripNewlines(lastOp.title) = <<"-">>)
    => /\ EditedAfter.title = EditedBefore.title
       /\ EditedAfter.body = lastOp.io.stdin

\* C16: after an edit_note that found its note and was not aborted the note
\* has the status the call was given, Blank if it was given none, and every
\* other note has the status it had.
C16_StatusAlwaysReset ==
    Edited =>
        /\ EditedAfter.status = (IF lastOp.status = NoStatus THEN "Blank"
                                 ELSE lastOp.status)
        /\ Len(prof.notes) = Len(lastOp.before.notes)
        /\ \A i \in DOMAIN prof.notes :
              prof.notes[i].id # lastOp.id =>
                  prof.notes[i].status = lastOp.before.notes[i].status

\* an edit that names no status has made an Urgent note Blank, next to
\* another note
C16_Witness ==
    /\ Edited
    /\ lastOp.status = NoStatus
    /\ EditedBefore.status = "Urgent"
    /\ EditedAfter.status = "Blank"
    /\ Len(prof.notes) >= 2

(***************************************************************************)
(* Claims about the file's contents and the display (SpecNotes).           *)
(***************************************************************************)
\* C17: a profile written by save_to_file and loaded again with the same key
\* and its own encrypted flag is the profile that was saved: the same notes
\* (id, title, status, body, time stamp) in the same order and the same
\* encrypted flag, whether the profile is encrypted or not.
C17_SaveLoadRoundTrip ==
    lastOp.op = "save, load" =>
        /\ lastOp.loaded.err = ""
        /\ lastOp.loaded.val.notes = lastOp.before.notes
        /\ lastOp.loaded.val.encrypted = lastOp.before.encrypted
        /\ files["A"].bytes = Contents(lastOp.before, lastOp.key)

\* an encrypted profile of two notes, one stamped later than the other, has
\* been saved as bytes that are not its encoding and loaded again
C17_Witness ==
    /\ lastOp.op = "save, load"
    /\ lastOp.before.encrypted
    /\ Len(lastOp.before.notes) = 2
    /\ lastOp.before.notes[1].last_touched # lastOp.before.notes[2].last_touched
    /\ files["A"].bytes # Encode(lastOp.before)
    /\ lastOp.loaded.val = lastOp.before

\* C19: after list_notes and after search_notes, whatever the sort key, the
\* reverse flag, the limit, the status and the search flags, and whether or
\* not the search fails, the profile holds the notes it held, in the order
\* it held them.
C19_DisplayLeavesNotes ==
    lastOp.op \in {"list", "search"} => prof = lastOp.before

\* a list has shown every note, in an order that is not the stored one
C19_Witness ==
    /\ lastOp.op = "list"
    /\ Len(lastOp.out) = Len(prof.notes)
    /\ lastOp.out # prof.notes
    /\ lastOp.flags.datesort
    /\ ~lastOp.flags.reverse

(***************************************************************************)
(* SpecFormat: format_field applied to one value.                          *)
(***************************************************************************)
MaxFieldLen == 8

\* the values: every string of two letters up to the longest
RECURSIVE Strings(_)
Strings(n) ==
    IF n = 0 THEN {<<>>}
    ELSE Strings(n - 1)
         \cup {Append(v, c) : v \in {w \in Strings(n - 1) : Len(w) = n - 1},
                              c \in {"a", "b"}}

\* format!("{: <1$.1$}", value, width): the value cut to width characters
\* and filled with blanks up to width
Padded(value, width) ==
    [i \in 1..width |-> IF i <= Len(value) THEN value[i] ELSE " "]

Ellipsis == <<".", ".", ".">>

\* a plausible slip: a value up to three characters too long is left whole
FormatFieldOverflows(value, width, truncate) ==
    IF Len(value) > width + 3 /\ truncate
    THEN Padded(value, width - 3) \o Ellipsis
    ELSE IF Len(value) > width /\ truncate THEN value
    ELSE Padded(value, width)

\* utils::format_field
format_field(value, width, truncate) ==
    IF Len(value) > width /\ width > 3 /\ truncate
    THEN Padded(value, width - 3) \o Ellipsis
    ELSE Padded(value, width)

InitFormat ==
    /\ scenario = "format"
    /\ files = [f \in Names |-> NoFile]
    /\ prof = Profile(FALSE, <<>>)
    /\ used = {}
    /\ \E value \in Strings(MaxFieldLen), width \in 0..MaxFieldLen,
          truncate \in BOOLEAN :
            lastOp = [op |-> "value", value |-> value, width |-> width,
                      truncate |-> truncate, out |-> <<>>]
    /\ nops = 0
    /\ Idle

OpFormat ==
    /\ lastOp.op = "value"
    /\ lastOp' = [lastOp EXCEPT
                    !.op = "format_field",
                    !.out = format_field(lastOp.value, lastOp.width,
                                         lastOp.truncate)]
    /\ nops' = nops + 1
    /\ UNCHANGED <<prof, used, storeVars>>

SpecFormat == InitFormat /\ [][OpFormat]_vars

\* format_field has been applied with truncation to a value longer than
\* the width
Truncating ==
    /\ lastOp.op = "format_field"
    /\ lastOp.truncate
    /\ Len(lastOp.value) > lastOp.width

C23_CheckIsNoLock ==
    [][\A p \in Procs :
          (At(p, "save_to_file", "write") /\ stack'[p] # stack[p])
          => /\ files' = [files EXCEPT ![SavePath(Top(p).args)] =
                                           FileOf(Top(p).profile)]
             /\ outcome'[p] \in {"running", "ok"}]_vars

\* two adds loaded the same file of A, both saves were checked against its
\* fingerprint and both wrote; the file holds one note more, not two
C23_Witness ==
    \E p \in Procs, q \in Procs :
        /\ p # q
        /\ outcome[p] = "ok" /\ outcome[q] = "ok"
        /\ cur[p].cmd = "add" /\ cur[q].cmd = "add"
        /\ cur[p].flag_profile = "A" /\ cur[q].flag_profile = "A"
        /\ ~cur[p].flag_yes /\ ~cur[q].flag_yes
        /\ base[p] = base[q]
        /\ lastWrite[p].fp = base[p].fp /\ lastWrite[q].fp = base[q].fp
        /\ lost[p]
        /\ Len(NotesIn("A")) = Len(Decode(base[p].bytes).notes) + 1

\* C26: a transfer command writes its copy to the destination's file once:
\* when transfer_note writes the destination, the invocation has not
\* changed that file before.
C26_TransferCopiesOnce ==
    [][\A p \in Procs :
          (/\ At(p, "save_to_file", "write")
           /\ Len(stack[p]) >= 2
           /\ Under(p).fn = "transfer_note"
           /\ stack'[p] # stack[p])
          => Under(p).args.arg_name[1] \notin changed[p]]_vars

\* the note a transfer of p is to move, as main loaded it
Moved(p) ==
    LET notes == Decode(base[p].bytes).notes
    IN  notes[Position(notes, cur[p].arg_id[1])]

\* the file of a profile holds a note with the title, body and status of n
Holds(name, n) ==
    /\ files[name].exists
    /\ \E i \in DOMAIN NotesIn(name) :
          /\ NotesIn(name)[i].title = n.title
          /\ NotesIn(name)[i].body = n.body
          /\ NotesIn(name)[i].status = n.status

\* a transfer of p, from a profile to another, that has loaded a source
\* which holds the note, beside no invocation that deletes
Transferring(p) ==
    /\ cur[p].cmd = "transfer"
    /\ cur[p].flag_profile # cur[p].arg_name[1]
    /\ base[p].fp # 0
    /\ cur[p].arg_id[1] \in IdsOf(Decode(base[p].bytes).notes)
    /\ \A q \in Procs : cur[q].cmd # "del"

\* the two statements of C27 about a transfer of p
NoteKept(p) ==
    /\ Holds(cur[p].flag_profile, Moved(p))
          \/ Holds(cur[p].arg_name[1], Moved(p))
    /\ (/\ At(p, "save_to_file", "write")
        /\ SavePath(Top(p).args) = cur[p].flag_profile
        /\ stack'[p] # stack[p])
       => /\ cur[p].arg_name[1] \in changed[p]
          /\ Holds(cur[p].arg_name[1], Moved(p))

\* C27, as the specification has it: during and after a transfer the
\* source's file or the destination's file holds the note, whatever else
\* runs beside it short of a delete.
C27_NoteNeverInNeither ==
    [][\A p \in Procs : Transferring(p) => NoteKept(p)]_vars

\* no other invocation writes the destination of the transfer of p
DestinationLeftAlone(p) ==
    \A q \in Procs \ {p} :
        cur[q].cmd = "none" \/ SavePath(cur[q]) # cur[p].arg_name[1]

\* C27, as the code has it: a transfer writes the source's file without the
\* note only after it has written the destination's file with the copy, so
\* that, as long as no other invocation writes the destination meanwhile,
\* one of the two files holds the note at every step and after every
\* failure or abort.
C27_NoteKeptByWriteOrder ==
    [][\A p \in Procs :
          (Transferring(p) /\ DestinationLeftAlone(p)) => NoteKept(p)]_vars

\* a transfer has written the source without the note, after the
\* destination, which it created
C27_Witness ==
    \E p \in Procs :
        /\ Transferring(p)
        /\ DestinationLeftAlone(p)
        /\ \E q \in Procs \ {p} : outcome[q] = "ok"
        /\ outcome[p] = "ok"
        /\ changed[p] = {"A", "B"}
        /\ ~Holds(cur[p].flag_profile, Moved(p))
        /\ Holds(cur[p].arg_name[1], Moved(p))
        /\ Len(NotesIn(cur[p].arg_name[1])) = 1

(***************************************************************************)
(* Claims about the dispatch of parse_cmds (Spec).                         *)
(***************************************************************************)
\* the step of p in which parse_cmds dispatches on the command line
Dispatches(p) == At(p, "parse_cmds", "dispatch") /\ stack'[p] # stack[p]

\* C29: parse_cmds runs an import that names a note id and a profile as a
\* transfer out of the named profile: the step goes on to load the profile
\* named, with the two names swapped and the command made a transfer.
C29_ImportRunsAsTransfer ==
    [][\A p \in Procs :
          (/\ Dispatches(p)
           /\ Top(p).args.cmd = "import"
           /\ Top(p).args.arg_id # <<>>
           /\ Top(p).args.arg_name # <<>>)
          => /\ stack'[p] # <<>>
             /\ stack'[p][Len(stack'[p])].fn = "new"
             /\ stack'[p][Len(stack'[p])].args = FromArgs(Top(p).args)]_vars

\* save_to_file has just been called with these arguments
SaveCalled(stk, args) ==
    /\ stk # <<>>
    /\ stk[Len(stk)].fn = "save_to_file"
    /\ stk[Len(stk)].pc = "check"
    /\ SavePath(stk[Len(stk)].args) = SavePath(args)

\* transfer_note is loading the destination
LoadsDestination(stk, args) ==
    /\ Len(stk) >= 2
    /\ stk[Len(stk)].fn = "new"
    /\ stk[Len(stk)].args.flag_profile = args.arg_name[1]
    /\ stk[Len(stk) - 1].fn = "transfer_note"

\* C30: parse_cmds calls save_to_file exactly for a command of the
\* mutating set that has succeeded.  A command outside the set ends without
\* a call of save_to_file and an invocation of one never changes a file; a
\* command of the set that fails ends the invocation where it fails, without
\* the save; one that succeeds goes on to save_to_file (a transfer first to
\* the load of its destination), and an invocation of one that ends well has
\* written its profile's file.
C30_SavesIffMutatingSucceeded ==
    [][\A p \in Procs :
          /\ Dispatches(p) =>
                LET args == Top(p).args
                IN  IF args.cmd \notin Mutating
                    THEN ~SaveCalled(stack'[p], args)
                    ELSE IF outcome'[p] = "running"
                    THEN \/ SaveCalled(stack'[p], args)
                         \/ /\ args.cmd = "transfer"
                            /\ LoadsDestination(stack'[p], args)
                    ELSE /\ stack'[p] = <<>>
                         /\ outcome'[p] \notin {"ok", "idle"}
          /\ changed'[p] # {} => cur'[p].cmd \in Mutating
          /\ (outcome'[p] = "ok" /\ cur'[p].cmd \in Mutating)
                => lastWrite'[p].name = SavePath(cur'[p])]_vars

\* a command outside the mutating set has ended well without a write,
\* beside a command of the set that has ended well and has written A
C30_Witness ==
    \E p, q \in Procs :
        /\ cur[p].cmd \in {"list", "search", "info", "view", "list_profiles"}
        /\ outcome[p] = "ok"
        /\ lastWrite[p] = NoWrite
        /\ cur[q].cmd \in Mutating
        /\ outcome[q] = "ok"
        /\ changed[q] = {"A"}
        /\ lastWrite[q].name = "A"

(***************************************************************************)
(* Claims about the arguments of the merge-replay (Spec).                  *)
(***************************************************************************)
\* p is at the parse_cmds that save_to_file runs on the reloaded profile
Replaying(p) ==
    /\ At(p, "parse_cmds", "dispatch")
    /\ Len(stack[p]) >= 2
    /\ Under(p).fn = "save_to_file"
    /\ Under(p).pc = "replay"

\* the body of the last note of a profile, "" without notes
LastBody(profile) ==
    IF profile.notes = <<>> THEN <<>>
    ELSE profile.notes[Len(profile.notes)].body

\* C24: the replay of a command given with the editor flag runs with the
\* flag cleared and with the body of the last note of the profile just
\* reloaded from the file as its literal body.
C24_ReplaySeedFromReloaded ==
    \A p \in Procs :
        (Replaying(p) /\ cur[p].flag_editor)
        => /\ ~Top(p).args.flag_editor
           /\ Top(p).args.flag_body # <<>>
           /\ Top(p).args.flag_body[1] = LastBody(Top(p).profile)

\* C25: a save of a command given with the editor flag, whatever its list
\* of literal bodies, never stops on an index out of range.
C25_ReplayArgsNeverFault ==
    [][\A p \in Procs :
          (/\ At(p, "save_to_file", "check")
           /\ Top(p).args.flag_editor
           /\ stack'[p] # stack[p])
          => outcome'[p] # IndexOutOfBounds]_vars

(***************************************************************************)
(* Claims about a change of the encryption beside a writer (SpecCrypt).    *)
(***************************************************************************)
\* the reload of a confirmed merge of p's command: the call of Profile::new
\* by save_to_file, and the read of the file it leads to
ReloadCalled(p) ==
    /\ At(p, "save_to_file", "check")
    /\ stack'[p] # stack[p]
    /\ stack'[p] # <<>>
    /\ stack'[p][Len(stack'[p])].fn = "new"

ReloadReads(p) ==
    /\ At(p, "new", "read")
    /\ Len(stack[p]) >= 2
    /\ Under(p).fn = "save_to_file"
    /\ stack'[p] # stack[p]

\* the reload of p's command is made with the key and the encrypted flag of
\* the command line, under which main loaded the file, and succeeds
ReloadsAsLoaded(p) ==
    /\ ReloadCalled(p) =>
          /\ stack'[p][Len(stack'[p])].args.flag_key = cur[p].flag_key
          /\ stack'[p][Len(stack'[p])].args.flag_encrypted = cur[p].flag_encrypted
    /\ ReloadReads(p) => outcome'[p] = "running"

\* C28: the confirmed merge of an encrypt-profile or a decrypt-profile
\* reloads the file with the key and the encrypted flag it was first loaded
\* with, and the reload succeeds.
C28_ReloadUnderOriginalKey ==
    [][\A p \in Procs :
          cur[p].cmd \in {"encrypt_profile", "decrypt_profile"}
          => ReloadsAsLoaded(p)]_vars

(***************************************************************************)
(* SpecWrite: Item::write applied to every note of a batch, under the line *)
(* format of the batch.                                                    *)
(***************************************************************************)
Digits == <<"0", "1", "2", "3", "4", "5", "6", "7", "8", "9">>

\* usize::to_string
RECURSIVE IdString(_)
IdString(id) ==
    IF id < 10 THEN <<Digits[id + 1]>>
    ELSE Append(IdString(id \div 10), Digits[(id % 10) + 1])

\* format!("{:?}", self.status): the name of the variant
StatusText(st) ==
    CASE st = "Blank" -> <<"B", "l", "a", "n", "k">>
      [] st = "Started" -> <<"S", "t", "a", "r", "t", "e", "d">>
      [] st = "Urgent" -> <<"U", "r", "g", "e", "n", "t">>

\* localize_last_touched_string: the stamp as the time of the local zone,
\* without the offset the stored stamp ends in
localize_last_touched_string(s) == <<"@">> \o s

\* str::lines
RECURSIVE Lines(_)
Lines(s) ==
    IF s = <<>> THEN <<>>
    ELSE IF \E k \in DOMAIN s : s[k] = "\n"
         THEN LET k == CHOOSE k \in DOMAIN s :
                          s[k] = "\n" /\ \A j \in 1..(k - 1) : s[j] # "\n"
              IN  <<SubSeq(s, 1, k - 1)>> \o Lines(SubSeq(s, k + 1, Len(s)))
         ELSE <<s>>

\* the width of the widest of the values
Widest(values) ==
    IF values = <<>> THEN 0
    ELSE CHOOSE w \in {Len(values[i]) : i \in DOMAIN values} :
            \A i \in DOMAIN values : Len(values[i]) <= w

\* the width of the heading of the id column
IdHeading == 2

\* the width of the marker of a note with a body
MarkerWidth == 4

\* the blanks between two columns
ColSep == 2

\* LineFormat::new: every column as wide as the widest value of the batch;
\* the id column at least as wide as its heading; room for the marker beside
\* the title when a note has a body; no status column for a batch whose
\* notes are all Blank
LineFormat(notes) ==
    LET idw == Widest([i \in DOMAIN notes |-> IdString(notes[i].id)])
        tw == Widest([i \in DOMAIN notes |-> notes[i].title])
    IN  [colsep |-> ColSep,
         id_width |-> IF idw < IdHeading THEN IdHeading ELSE idw,
         title_width |-> IF \E i \in DOMAIN notes : notes[i].body # <<>>
                         THEN tw + MarkerWidth ELSE tw,
         status_width |-> IF \A i \in DOMAIN notes : notes[i].status = "Blank"
                          THEN 0
                          ELSE Widest([i \in DOMAIN notes |->
                                          StatusText(notes[i].status)]),
         touched_width |->
            Widest([i \in DOMAIN notes |->
                      localize_last_touched_string(notes[i].last_touched)])]

Marker == <<" ", "(", "+", ")">>

Blanks(n) == [i \in 1..n |-> " "]

RECURSIVE BodyLines(_)
BodyLines(ls) ==
    IF ls = <<>> THEN <<>>
    ELSE <<"\t">> \o Head(ls) \o <<"\n">> \o BodyLines(Tail(ls))

\* item.rs 39-47: the title field
TitleField(self, line_format, search_body) ==
    IF self.body # <<>> /\ ~search_body
    THEN format_field(self.title, line_format.title_width - MarkerWidth, TRUE)
         \o format_field(Marker, MarkerWidth, FALSE)
    ELSE format_field(self.title, line_format.title_width, TRUE)

\* item.rs 49-57: the status column
StatusField(self, line_format) ==
    IF line_format.status_width # 0
    THEN format_field(StatusText(self.status), line_format.status_width, FALSE)
         \o Blanks(line_format.colsep)
    ELSE <<>>

\* item.rs 58-62: the last column and the end of the line
TouchedField(self, line_format) ==
    format_field(localize_last_touched_string(self.last_touched),
                 line_format.touched_width, FALSE) \o <<"\n">>

\* a plausible slip: the status column is written whatever its width
WriteStatusAlways(self, line_format, search_body) ==
    format_field(IdString(self.id), line_format.id_width, FALSE)
    \o Blanks(line_format.colsep)
    \o TitleField(self, line_format, search_body)
    \o Blanks(line_format.colsep)
    \o format_field(StatusText(self.status), line_format.status_width, FALSE)
    \o Blanks(line_format.colsep)
    \o TouchedField(self, line_format)
    \o (IF search_body THEN BodyLines(Lines(self.body)) ELSE <<>>)

\* a plausible slip: the marker is written under a body search as well
WriteMarksAlways(self, line_format, search_body) ==
    format_field(IdString(self.id), line_format.id_width, FALSE)
    \o Blanks(line_format.colsep)
    \o TitleField(self, line_format, FALSE)
    \o Blanks(line_format.colsep)
    \o StatusField(self, line_format)
    \o TouchedField(self, line_format)
    \o (IF search_body THEN BodyLines(Lines(self.body)) ELSE <<>>)

\* Item::write: the characters written to output.  The title field is
\* narrowed by usize arithmetic, which a title_width under the marker's
\* width would underflow; LineFormat gives no such width to a batch that
\* holds the note
write(self, line_format, search_body) ==
    format_field(IdString(self.id), line_format.id_width, FALSE)
    \o Blanks(line_format.colsep)
    \o TitleField(self, line_format, search_body)
    \o Blanks(line_format.colsep)
    \o StatusField(self, line_format)
    \o TouchedField(self, line_format)
    \o (IF search_body THEN BodyLines(Lines(self.body)) ELSE <<>>)

\* the notes a batch is made of
BatchNotes ==
    {[Item(id, title, status, body) EXCEPT !.last_touched = t] :
        id \in {1, 12}, title \in {<<"a">>, <<"a", "b", "a">>},
        status \in {"Blank", "Started", "Urgent"},
        body \in {<<>>, <<"a">>, <<"a", "\n", "b">>}, t \in {Earlier, Now}}

InitWrite ==
    /\ scenario = "write"
    /\ files = [f \in Names |-> NoFile]
    /\ prof = Profile(FALSE, <<>>)
    /\ used = {}
    /\ \E n \in BatchNotes, m \in BatchNotes, two \in BOOLEAN,
          search_body \in BOOLEAN :
            /\ n.id < m.id
            /\ lastOp = [op |-> "batch",
                         notes |-> IF two THEN <<n, m>> ELSE <<n>>,
                         search_body |-> search_body,
                         line_format |-> LineFormat(<<>>), out |-> <<>>]
    /\ nops = 0
    /\ Idle

\* sorted_print: the line format of the batch, then every note written
OpWrite ==
    /\ lastOp.op = "batch"
    /\ LET line_format == LineFormat(lastOp.notes)
       IN  lastOp' = [lastOp EXCEPT
                        !.op = "write",
                        !.line_format = line_format,
                        !.out = [i \in DOMAIN lastOp.notes |->
                                    write(lastOp.notes[i], line_format,
                                          lastOp.search_body)]]
    /\ nops' = nops + 1
    /\ UNCHANGED <<prof, used, storeVars>>

SpecWrite == InitWrite /\ [][OpWrite]_vars

(***************************************************************************)
(* Claims about Item::write (SpecWrite).                                   *)
(***************************************************************************)
WroteBatch == lastOp.op = "write"

\* the characters of the line of note i before its title field, up to the
\* end of its title column, and up to the end of the line
TitleAt == lastOp.line_format.id_width + lastOp.line_format.colsep

StatusAt ==
    TitleAt + lastOp.line_format.title_width + lastOp.line_format.colsep

LineEnd ==
    StatusAt
    + (IF lastOp.line_format.status_width # 0
       THEN lastOp.line_format.status_width + lastOp.line_format.colsep
       ELSE 0)
    + lastOp.line_format.touched_width + 1

\* the title column of the line of note i
TitleColumn(i) ==
    SubSeq(lastOp.out[i], TitleAt + 1,
           TitleAt + lastOp.line_format.title_width)

\* what the line of note i holds after its title column and the separator
AfterTitle(i) == SubSeq(lastOp.out[i], StatusAt + 1, Len(lastOp.out[i]))

\* what is written beneath the line of note i
Beneath(i) == SubSeq(lastOp.out[i], LineEnd + 1, Len(lastOp.out[i]))

\* the last column of note i, the end of its line and what is beneath it
FromTouched(i) ==
    Padded(localize_last_touched_string(lastOp.notes[i].last_touched),
           lastOp.line_format.touched_width)
    \o <<"\n">> \o Beneath(i)

\* the status of note i and one separator
StatusColumn(i) ==
    Padded(StatusText(lastOp.notes[i].status),
           lastOp.line_format.status_width)
    \o Blanks(lastOp.line_format.colsep)

\* C21: the line of a note holds the status column, the status text and
\* one column separator, exactly when the status width of the line format
\* is not 0; the width is 0 for a batch of Blank notes only, whose lines
\* have no status column, and not 0 for a batch with another status, whose
\* lines all have it.
C21_StatusColumnIffWidth ==
    WroteBatch =>
        /\ lastOp.line_format.status_width = 0
              <=> \A i \in DOMAIN lastOp.notes :
                        lastOp.notes[i].status = "Blank"
        /\ \A i \in DOMAIN lastOp.notes :
              /\ Len(lastOp.out[i]) >= LineEnd
              /\ lastOp.out[i][LineEnd] = "\n"
              /\ IF lastOp.line_format.status_width # 0
                 THEN AfterTitle(i) = StatusColumn(i) \o FromTouched(i)
                 ELSE AfterTitle(i) = FromTouched(i)

\* a Blank note and a Started note have been written as one batch: both
\* lines have the status column
C21_Witness ==
    /\ WroteBatch
    /\ Len(lastOp.notes) = 2
    /\ lastOp.notes[1].status = "Blank"
    /\ lastOp.notes[2].status = "Started"
    /\ lastOp.line_format.status_width = 7
    /\ SubSeq(AfterTitle(1), 1, 9)
            = <<"B", "l", "a", "n", "k", " ", " ", " ", " ">>
    /\ SubSeq(AfterTitle(2), 1, 9)
            = <<"S", "t", "a", "r", "t", "e", "d", " ", " ">>

\* the title column of note i ends in the marker, after the title in a
\* field four characters narrower
Marked(i) ==
    LET w == lastOp.line_format.title_width
    IN  /\ w >= MarkerWidth
        /\ Len(TitleColumn(i)) = w
        /\ SubSeq(TitleColumn(i), w - 3, w) = Marker
        /\ SubSeq(TitleColumn(i), 1, w - MarkerWidth)
              = Padded(lastOp.notes[i].title, w - MarkerWidth)

\* the title column of note i is the title alone
Unmarked(i) ==
    /\ TitleColumn(i)
          = Padded(lastOp.notes[i].title, lastOp.line_format.title_width)
    /\ \A k \in DOMAIN TitleColumn(i) : TitleColumn(i)[k] \notin {"(", "+", ")"}

\* C22: without a body search the title of a note with a body is followed
\* by " (+)" inside a title column of the same width, a note without a body
\* has no marker, and nothing is written beneath the line; with a body
\* search there is no marker and every line of the body is beneath the
\* line, after one tab, nothing being beneath it for an empty body.
C22_MarkerOrBodyLines ==
    WroteBatch =>
        \A i \in DOMAIN lastOp.notes :
            IF lastOp.search_body
            THEN /\ Unmarked(i)
                 /\ Beneath(i) = BodyLines(Lines(lastOp.notes[i].body))
                 /\ lastOp.notes[i].body = <<>> => Beneath(i) = <<>>
            ELSE /\ IF lastOp.notes[i].body # <<>> THEN Marked(i)
                    ELSE Unmarked(i)
                 /\ Beneath(i) = <<>>

\* a note with a body of two lines has been written under a body search,
\* and both lines are beneath it after a tab
C22_Witness ==
    /\ WroteBatch
    /\ lastOp.search_body
    /\ lastOp.notes[1].body = <<"a", "\n", "b">>
    /\ Unmarked(1)
    /\ Beneath(1) = <<"\t", "a", "\n", "\t", "b", "\n">>
=============================================================================
